---- MODULE Spec2Model ----
(***************************************************************************)
(* A model of src/app.py, the CoastalGuard Flask application: the weather  *)
(* record construction (fetch_weather_data, get_mock_weather_data), the    *)
(* threat classification (calculate_threat_level), the AI analysis path    *)
(* (analyze_coastal_threat, call_gemini_api, parse_gemini_response) and    *)
(* the request handlers.                                                   *)
(*                                                                         *)
(* Numbers.  Python floats are modelled as exact fixed-point rationals:    *)
(*   - a temperature is an integer count of 1/TempScale degrees Celsius,   *)
(*   - a speed in m/s is an integer count of 1/SpeedScale m/s,             *)
(*   - a speed in km/h (speed * 3.6) is the integer speed * 36 counted in  *)
(*     units of 1/(10 * SpeedScale) km/h,                                  *)
(*   - pressure (hPa), humidity, degrees and metres are integers as the    *)
(*     provider sends them.                                                *)
(* A Python dict is a TLA+ record; a missing key is a field outside        *)
(* DOMAIN.  Python's module-level random generator is the variable rng, a  *)
(* small congruential generator whose seed is chosen in Init.              *)
(***************************************************************************)
EXTENDS Integers, Sequences, FiniteSets, TLC

VARIABLES
    apiKey,      \* os.getenv('WEATHER_API_KEY') as fetch_weather_data sees it
    env,         \* configuration read once at import (lines 19, 36-55)
    cities,      \* the module-level GUJARAT_CITIES mapping (lines 65-76)
    rng,         \* state of Python's shared random generator
    last,        \* what the last handler (or pure call) did and answered
    arg          \* input of the pure function under check (pure specifications)

vars == <<apiKey, env, cities, rng, last, arg>>

---------------------------------------------------------------------------
(* Bounds of the model (not program constants).                            *)

\* resolution of temperatures: units per degree Celsius
TempScale == 10
\* resolution of speeds: units per m/s (90 holds tenths and ninths of a m/s,
\* so that 125/9 m/s = 50 km/h exactly is representable)
SpeedScale == 90
\* number of states of the random generator
RngMod == 13

---------------------------------------------------------------------------
(* Program constants.                                                      *)

RedTemp == 40
RedWind == 50
RedPressure == 990
YellowTemp == 35
YellowWind == 30
YellowPressure == 1000
DefaultVisibility == 10000
MetresPerKm == 1000
SmsLimit == 160

ThreatLevels == {"green", "yellow", "red"}

---------------------------------------------------------------------------
(* Python built-ins.                                                       *)

Has(d, k) == k \in DOMAIN d

\* the element of a one-element set; {F(x) : x \in {e}} names the value of e
\* by x, so that F reads it as often as it likes and e is computed once
Only(S) == CHOOSE x \in S : TRUE

\* dict.get(k, default)
Get(d, k, default) == IF k \in DOMAIN d THEN d[k] ELSE default

\* a dict with key k set to v (d[k] = v)
SetKey(d, k, v) == [x \in (DOMAIN d) \cup {k} |-> IF x = k THEN v ELSE d[x]]

\* a dict without key k
DropKey(d, k) == [x \in (DOMAIN d) \ {k} |-> d[x]]

\* int(n / d) for n >= 0 and d > 0
RoundTruncated(n, d) == n \div d

\* round(n / d) for d > 0: Python 3 rounds to the nearest integer, ties to
\* the even one.
RoundHalfEven(n, d) ==
    LET q == n \div d
        r == n % d
    IN  IF 2 * r < d THEN q
        ELSE IF 2 * r > d THEN q + 1
        ELSE IF q % 2 = 0 THEN q ELSE q + 1

\* speed * 3.6, in units of 1/(10 * SpeedScale) km/h
MsToKmh(speed) == speed * 36
KmhUnit == 10 * SpeedScale

---------------------------------------------------------------------------
(* The static city table (lines 65-76).  lat and lon in 1/10000 degree.    *)

GUJARAT_CITIES ==
    [Ahmedabad |-> [lat |-> 230225, lon |-> 725714, icon |-> "fa-anchor"],
     Surat     |-> [lat |-> 211702, lon |-> 728311, icon |-> "fa-ship"],
     Vadodara  |-> [lat |-> 223072, lon |-> 731812, icon |-> "fa-industry"],
     Rajkot    |-> [lat |-> 223039, lon |-> 708022, icon |-> "fa-cog"],
     Bhavnagar |-> [lat |-> 217645, lon |-> 721519, icon |-> "fa-anchor"],
     Jamnagar  |-> [lat |-> 224707, lon |-> 700577, icon |-> "fa-oil-well"],
     Porbandar |-> [lat |-> 216417, lon |-> 696293, icon |-> "fa-ship"],
     Dwarka    |-> [lat |-> 222394, lon |-> 689678, icon |-> "fa-mosque"],
     Veraval   |-> [lat |-> 209077, lon |-> 703665, icon |-> "fa-fish"],
     Okha      |-> [lat |-> 224672, lon |-> 690717, icon |-> "fa-lighthouse"]]

\* list(GUJARAT_CITIES.items()): a dict iterates in insertion order
CityOrder ==
    <<"Ahmedabad", "Surat", "Vadodara", "Rajkot", "Bhavnagar",
      "Jamnagar", "Porbandar", "Dwarka", "Veraval", "Okha">>

IconClasses == {GUJARAT_CITIES[c].icon : c \in DOMAIN GUJARAT_CITIES}

---------------------------------------------------------------------------
(* get_wind_direction (lines 78-83).                                       *)

Directions ==
    <<"N", "NNE", "NE", "ENE", "E", "ESE", "SE", "SSE",
      "S", "SSW", "SW", "WSW", "W", "WNW", "NW", "NNW">>

\* a variant with int() in place of round()
WindIndexTruncated(degrees) == RoundTruncated(2 * degrees, 45) % 16

\* index = round(degrees / 22.5) % 16; degrees / 22.5 = 2 * degrees / 45
WindIndex(degrees) == RoundHalfEven(2 * degrees, 45) % 16

get_wind_direction(degrees) == Directions[WindIndex(degrees) + 1]

---------------------------------------------------------------------------
(* calculate_threat_level (lines 252-264).                                 *)

\* a variant with non-strict comparisons
ThreatNonStrict(weather_data) ==
    LET temp == weather_data.main.temp
        wind_speed == MsToKmh(weather_data.wind.speed)
        pressure == weather_data.main.pressure
    IN  IF temp >= RedTemp * TempScale \/ wind_speed >= RedWind * KmhUnit
           \/ pressure <= RedPressure
        THEN "red"
        ELSE IF temp >= YellowTemp * TempScale
                \/ wind_speed >= YellowWind * KmhUnit
                \/ pressure <= YellowPressure
        THEN "yellow"
        ELSE "green"

calculate_threat_level(weather_data) ==
    LET temp == weather_data.main.temp
        wind_speed == MsToKmh(weather_data.wind.speed)
        pressure == weather_data.main.pressure
    IN  IF temp > RedTemp * TempScale \/ wind_speed > RedWind * KmhUnit
           \/ pressure < RedPressure
        THEN "red"
        ELSE IF temp > YellowTemp * TempScale
                \/ wind_speed > YellowWind * KmhUnit
                \/ pressure < YellowPressure
        THEN "yellow"
        ELSE "green"

---------------------------------------------------------------------------
(* Python's random module.  The generator is a state machine: every call   *)
(* advances the state and maps the new state to a value of the requested   *)
(* range.  The state space is 0..RngMod-1; the value map scales the state  *)
(* onto a..b, both ends included, as randint does.                         *)

NextRng(s) == (s * 7 + 3) % RngMod

\* the most random calls one function makes in a row
MaxDraws == 17

RECURSIVE Orbit(_, _)
\* the next k states of the generator after state s
Orbit(s, k) == IF k = 0 THEN <<>> ELSE <<NextRng(s)>> \o Orbit(NextRng(s), k - 1)

OrbitTable == [s \in 0..(RngMod - 1) |-> Orbit(s, MaxDraws)]

\* the generator's state after k calls, k <= MaxDraws
RngAt(s, k) == IF k = 0 THEN s ELSE OrbitTable[s][k]

\* random.randint(a, b) read off generator state s: a value of a..b
RandInt(s, a, b) == a + ((b - a) * s) \div (RngMod - 1)

\* random.choice(seq) read off generator state s
RandChoice(s, seq) == seq[RandInt(s, 1, Len(seq))]

---------------------------------------------------------------------------
(* Formatting helpers of the weather record.                               *)

\* a length in km as Python's float: whole kilometres and thousandths
Km(whole, frac) == [whole |-> whole, frac |-> frac]

\* data.get('visibility', 10000) / 1000 (line 194): true division
MetresToKm(metres) == Km(metres \div MetresPerKm, metres % MetresPerKm)

\* datetime.fromtimestamp(ts).strftime('%H:%M') for a server on UTC
FormatHM(ts) == [h |-> (ts \div 3600) % 24, m |-> (ts \div 60) % 60]

---------------------------------------------------------------------------
(* get_mock_weather_data (lines 218-250).  The dict display is evaluated   *)
(* top to bottom, so the k-th random call reads generator state            *)
(* RngAt(s, k); seventeen calls are made.                                  *)

MockDraws == MaxDraws

\* a variant that subtracts up to 5 from temp for temp_max as well
MockTempMaxBelow(s, temp) == temp - RandInt(s, 2, 5)

MockTempMax(s, temp) == temp + RandInt(s, 2, 5)

get_mock_weather_data(city_name, s) ==
    LET temp == RandInt(RngAt(s, 1), 25, 35)
        tenths == RandInt(RngAt(s, 14), 80, 150)
    IN  [rec |->
           [city |-> city_name,
            temperature |-> temp,
            feels_like |-> temp + RandInt(RngAt(s, 2), -2, 4),
            temp_min |-> temp - RandInt(RngAt(s, 3), 2, 5),
            temp_max |-> MockTempMax(RngAt(s, 4), temp),
            humidity |-> RandInt(RngAt(s, 5), 60, 85),
            pressure |-> RandInt(RngAt(s, 6), 1010, 1020),
            sea_level_pressure |-> RandInt(RngAt(s, 7), 1012, 1022),
            wind_speed |-> RandInt(RngAt(s, 8), 10, 25),
            wind_direction |-> RandInt(RngAt(s, 9), 0, 360),
            wind_direction_text |->
                get_wind_direction(RandInt(RngAt(s, 10), 0, 360)),
            wind_gust |-> RandInt(RngAt(s, 11), 15, 35),
            description |->
                RandChoice(RngAt(s, 12),
                    <<"Clear Sky", "Few Clouds", "Partly Cloudy", "Light Breeze">>),
            main_weather |-> RandChoice(RngAt(s, 13), <<"Clear", "Clouds", "Mist">>),
            icon |-> "01d",
            visibility |-> Km(tenths \div 10, (tenths % 10) * 100),
            clouds |-> RandInt(RngAt(s, 15), 10, 40),
            sunrise |-> [h |-> 6, m |-> 30],
            sunset |-> [h |-> 18, m |-> 45],
            country |-> "IN",
            timezone |-> 19800,
            last_updated |-> "now",
            threat_level |-> "green",
            uv_index |-> RandInt(RngAt(s, 16), 3, 8),
            air_quality |->
                [level |-> "Good", aqi |-> RandInt(RngAt(s, 17), 20, 80),
                 color |-> "green"],
            sea_conditions |->
                [condition |-> "Calm", wave_height |-> "0.5-1m", safety |-> "Safe"],
            coordinates |-> [lat |-> 220000, lon |-> 710000]],
         rng |-> RngAt(s, MockDraws)]


---------------------------------------------------------------------------
(* Estimations on the provider's response (lines 85-118).                  *)

\* calculate_uv_index: one random call, read off generator state s
calculate_uv_index(weather_data, s) ==
    LET cloud_cover == Get(Get(weather_data, "clouds", [none |-> 0]), "all", 0)
    IN  IF cloud_cover > 80 THEN RandInt(s, 1, 3)
        ELSE IF cloud_cover > 50 THEN RandInt(s, 3, 6)
        ELSE RandInt(s, 6, 9)

\* get_air_quality_estimation: one random call, read off generator state s
get_air_quality_estimation(weather_data, s) ==
    LET humidity == weather_data.main.humidity
        pressure == weather_data.main.pressure
    IN  IF pressure > 1020 /\ humidity < 60
        THEN [level |-> "Good", aqi |-> RandInt(s, 1, 50), color |-> "green"]
        ELSE IF pressure > 1010 /\ humidity < 70
        THEN [level |-> "Moderate", aqi |-> RandInt(s, 51, 100), color |-> "yellow"]
        ELSE [level |-> "Unhealthy", aqi |-> RandInt(s, 101, 150), color |-> "orange"]

estimate_sea_conditions(weather_data) ==
    LET wind_speed == MsToKmh(weather_data.wind.speed)
        pressure == weather_data.main.pressure
    IN  IF wind_speed < 20 * KmhUnit /\ pressure > 1015
        THEN [condition |-> "Calm", wave_height |-> "0.5-1m", safety |-> "Safe"]
        ELSE IF wind_speed < 35 * KmhUnit /\ pressure > 1005
        THEN [condition |-> "Moderate", wave_height |-> "1-2m", safety |-> "Caution"]
        ELSE [condition |-> "Rough", wave_height |-> "2-4m", safety |-> "Warning"]

\* str.upper() on the level names
Upper(text) ==
    CASE text = "green" -> "GREEN"
      [] text = "yellow" -> "YELLOW"
      [] text = "red" -> "RED"
      [] text = "unknown" -> "UNKNOWN"
      [] OTHER -> text

\* str.title() on the descriptions the provider sends
Title(text) ==
    CASE text = "light rain" -> "Light Rain"
      [] text = "clear sky" -> "Clear Sky"
      [] text = "haze" -> "Haze"
      [] OTHER -> text

---------------------------------------------------------------------------
(* The weather provider.  A response is what requests.get /                *)
(* raise_for_status / response.json() give for one request:                *)
(*   kind = "timeout"     requests.get raises a RequestException           *)
(*   kind = "http_error"  raise_for_status raises HTTPError (non-2xx)      *)
(*   kind = "bad_json"    response.json() raises                           *)
(*   kind = "ok"          data is the decoded JSON object; nulls names the *)
(*                        paths whose JSON value is null                   *)

NoData == [none |-> 0]

Fine(temp, speed, pressure, humidity, cloud) ==
    [main |-> [temp |-> temp, feels_like |-> temp + 12, temp_min |-> temp - 15,
               temp_max |-> temp + 21, humidity |-> humidity,
               pressure |-> pressure, sea_level |-> pressure + 1],
     wind |-> [speed |-> speed, deg |-> 225, gust |-> speed + 2 * SpeedScale],
     weather |-> <<[description |-> "light rain", main |-> "Rain", icon |-> "10d"]>>,
     visibility |-> 6543,
     clouds |-> [all |-> cloud],
     sys |-> [sunrise |-> 1756341000, sunset |-> 1756386300, country |-> "IN"],
     timezone |-> 19800]

Ok(data) == [kind |-> "ok", data |-> data, nulls |-> {}]
Failure(kind) == [kind |-> kind, data |-> NoData, nulls |-> {}]

\* the responses a request may get; speeds in 1/SpeedScale m/s
Responses ==
    LET calm == Fine(283, 288, 1013, 70, 75)
        sparse == Fine(301, 315, 985, 65, 90)
    IN << Ok(calm),
          \* 40.4 degrees: above the red threshold, rounds to 40
          Ok(Fine(404, 288, 1013, 70, 75)),
          \* exactly 40 degrees, 125/9 m/s = 50 km/h, 990 hPa
          Ok(Fine(40 * TempScale, (125 * SpeedScale) \div 9, 990, 70, 40)),
          \* 35.4 degrees, 5.2 m/s = 18.72 km/h, no gust reported
          Ok([Fine(354, 468, 1013, 70, 75) EXCEPT
                !.wind = [speed |-> 468, deg |-> 90]]),
          \* 985 hPa; no visibility, no timezone, no sea_level, no deg, gust 0
          Ok([main |-> DropKey(sparse.main, "sea_level"),
              wind |-> [speed |-> 315, gust |-> 0],
              weather |-> <<[description |-> "haze", main |-> "Haze", icon |-> "50d"]>>,
              clouds |-> sparse.clouds,
              sys |-> sparse.sys]),
          \* exactly 35 degrees, 75/9 m/s = 30 km/h, 1000 hPa
          Ok(Fine(35 * TempScale, (75 * SpeedScale) \div 9, 1000, 70, 10)),
          \* 30.5 degrees, 2.5 m/s = 9 km/h, high pressure, dry
          Ok([Fine(305, 225, 1025, 50, 20) EXCEPT !.visibility = 10000]),
          \* 14 m/s = 50.4 km/h: above the red threshold, rounds to 50
          Ok(Fine(283, 1260, 1013, 70, 75)),
          Ok(DropKey(calm, "sys")),
          Ok(DropKey(calm, "wind")),
          Ok([calm EXCEPT !.main = DropKey(calm.main, "humidity")]),
          Failure("timeout"),
          Failure("http_error"),
          Failure("bad_json"),
          [kind |-> "ok", data |-> calm, nulls |-> {"main.temp"}],
          Ok([calm EXCEPT !.weather = <<>>]) >>

NumResponses == Len(Responses)

\* the response to the k-th request of a handler that runs in world w
ResponseAt(w, k) == Responses[((w + k - 1) % NumResponses) + 1]

---------------------------------------------------------------------------
(* The environment variable WEATHER_API_KEY: set or not, and its value as  *)
(* a sequence of tokens, a token being a whitespace character or a run of  *)
(* other characters.                                                       *)

Whitespace == {" ", "\t"}

RECURSIVE LStrip(_)
LStrip(t) == IF t # <<>> /\ Head(t) \in Whitespace THEN LStrip(Tail(t)) ELSE t

RECURSIVE RStrip(_)
RStrip(t) ==
    IF t # <<>> /\ t[Len(t)] \in Whitespace
    THEN RStrip(SubSeq(t, 1, Len(t) - 1)) ELSE t

\* str.strip()
Strip(t) == RStrip(LStrip(t))

Placeholder == <<"your-openweathermap-api-key">>

KeyValues ==
    { [set |-> FALSE, val |-> <<>>],
      [set |-> TRUE, val |-> <<>>],
      [set |-> TRUE, val |-> <<" ", "\t">>],
      [set |-> TRUE, val |-> Placeholder],
      [set |-> TRUE, val |-> <<"0a1b2c">>],
      [set |-> TRUE, val |-> <<" ", "0a1b2c", " ">>] }

\* line 149: not api_key or api_key.strip() == '' or api_key == placeholder
KeyUnusable(key) ==
    \/ ~key.set
    \/ key.val = <<>>
    \/ Strip(key.val) = <<>>
    \/ key.val = Placeholder


---------------------------------------------------------------------------
(* fetch_weather_data (lines 120-216).  Its result here is a log entry:    *)
(*   raised  whether an exception left the function                        *)
(*   rec     the record returned (NoData when raised)                      *)
(*   path    "no_key", "api", "request_error", "key_error", "other_error"  *)
(*   http    the number of requests.get calls made                         *)
(*   data    the decoded response the record was built from (path "api")   *)
(*   seed    the generator state get_mock_weather_data started from        *)
(*   city_name, resp  the city asked for and the response received         *)
(*   rng     the generator state afterwards                                *)

\* where building the record from the response stops (lines 173-206):
\* "done", or the exception and the number of random calls made before it
BuildOutcome(resp) ==
    LET data == resp.data
        HasAll(d, keys) == \A k \in keys : Has(d, k)
    IN  IF ~Has(data, "wind") THEN [exc |-> "KeyError", draws |-> 0]
        ELSE IF ~(Has(data, "main") /\ HasAll(data.main, {"humidity", "pressure"}))
        THEN [exc |-> "KeyError", draws |-> 1]
        ELSE IF ~Has(data.wind, "speed") THEN [exc |-> "KeyError", draws |-> 2]
        ELSE IF ~Has(data.main, "temp") THEN [exc |-> "KeyError", draws |-> 2]
        ELSE IF "main.temp" \in resp.nulls THEN [exc |-> "TypeError", draws |-> 2]
        ELSE IF ~HasAll(data.main, {"feels_like", "temp_min", "temp_max"})
        THEN [exc |-> "KeyError", draws |-> 2]
        ELSE IF ~Has(data, "weather") THEN [exc |-> "KeyError", draws |-> 2]
        ELSE IF data.weather = <<>> THEN [exc |-> "IndexError", draws |-> 2]
        ELSE IF ~HasAll(data.weather[1], {"description", "main", "icon"})
        THEN [exc |-> "KeyError", draws |-> 2]
        ELSE IF ~(Has(data, "clouds") /\ Has(data.clouds, "all"))
        THEN [exc |-> "KeyError", draws |-> 2]
        ELSE IF ~(Has(data, "sys")
                  /\ HasAll(data.sys, {"sunrise", "sunset", "country"}))
        THEN [exc |-> "KeyError", draws |-> 2]
        ELSE [exc |-> "none", draws |-> 2]

\* a variant: int(speed * 3.6), truncation instead of rounding
KmhTruncated(speed) == RoundTruncated(MsToKmh(speed), KmhUnit)

\* round(speed * 3.6) (lines 187, 190)
KmhRounded(speed) == RoundHalfEven(MsToKmh(speed), KmhUnit)

\* a variant that classifies the hard-coded calm case only
ThreatAlwaysGreen(data) == "green"

\* a variant that upper-cases the level, as the alert titles do
RecordThreatUpper(data) == Upper(calculate_threat_level(data))

\* the 'threat_level' entry of the record (line 201)
RecordThreat(data) == calculate_threat_level(data)

\* the dict returned at lines 178-206; s is the generator state on entry
ApiRecord(city_name, lat, lon, data, s) ==
    [city |-> city_name,
     temperature |-> RoundHalfEven(data.main.temp, TempScale),
     feels_like |-> RoundHalfEven(data.main.feels_like, TempScale),
     temp_min |-> RoundHalfEven(data.main.temp_min, TempScale),
     temp_max |-> RoundHalfEven(data.main.temp_max, TempScale),
     humidity |-> data.main.humidity,
     pressure |-> data.main.pressure,
     sea_level_pressure |-> Get(data.main, "sea_level", data.main.pressure),
     wind_speed |-> KmhRounded(data.wind.speed),
     wind_direction |-> Get(data.wind, "deg", 0),
     wind_direction_text |-> get_wind_direction(Get(data.wind, "deg", 0)),
     wind_gust |->
        IF Has(data.wind, "gust") /\ data.wind.gust # 0
        THEN KmhRounded(Get(data.wind, "gust", 0)) ELSE 0,
     description |-> Title(data.weather[1].description),
     main_weather |-> data.weather[1].main,
     icon |-> data.weather[1].icon,
     visibility |-> MetresToKm(Get(data, "visibility", DefaultVisibility)),
     clouds |-> data.clouds.all,
     sunrise |-> FormatHM(data.sys.sunrise),
     sunset |-> FormatHM(data.sys.sunset),
     country |-> data.sys.country,
     timezone |-> Get(data, "timezone", 0),
     last_updated |-> "now",
     threat_level |-> RecordThreat(data),
     uv_index |-> calculate_uv_index(data, RngAt(s, 1)),
     air_quality |-> get_air_quality_estimation(data, RngAt(s, 2)),
     sea_conditions |-> estimate_sea_conditions(data),
     coordinates |-> [lat |-> lat, lon |-> lon]]

\* a variant of the except clauses that lets the exception through
Reraise(city_name, s, path, http) ==
    [raised |-> TRUE, rec |-> NoData, path |-> path, http |-> http,
     data |-> NoData, seed |-> s, rng |-> s, city_name |-> city_name]

\* a variant of the fallback that asks the provider once more
MockAfterRetry(city_name, s, path, http) ==
    LET m == get_mock_weather_data(city_name, s)
    IN  [raised |-> FALSE, rec |-> m.rec, path |-> path,
         http |-> IF path = "no_key" THEN http ELSE http + 1,
         data |-> NoData, seed |-> s, rng |-> m.rng, city_name |-> city_name]

\* return get_mock_weather_data(city_name) (lines 152, 210, 213, 216)
MockFallback(city_name, s, path, http) ==
    LET m == get_mock_weather_data(city_name, s)
    IN  [raised |-> FALSE, rec |-> m.rec, path |-> path, http |-> http,
         data |-> NoData, seed |-> s, rng |-> m.rng, city_name |-> city_name]

NotRequested == [kind |-> "not_requested", data |-> NoData, nulls |-> {}]

\* lines 149-216, without the response received
FetchOutcome(city_name, lat, lon, key, s, resp) ==
    IF KeyUnusable(key) THEN MockFallback(city_name, s, "no_key", 0)
    ELSE IF resp.kind # "ok" THEN MockFallback(city_name, s, "request_error", 1)
    ELSE LET out == BuildOutcome(resp)
         IN  IF out.exc = "KeyError"
             THEN MockFallback(city_name, RngAt(s, out.draws), "key_error", 1)
             ELSE IF out.exc # "none"
             THEN MockFallback(city_name, RngAt(s, out.draws), "other_error", 1)
             ELSE [raised |-> FALSE,
                   rec |-> ApiRecord(city_name, lat, lon, resp.data, s),
                   path |-> "api", http |-> 1, data |-> resp.data,
                   seed |-> s, rng |-> RngAt(s, 2), city_name |-> city_name]

fetch_weather_data(city_name, lat, lon, key, s, resp) ==
    Only({ SetKey(e, "resp", IF e.http = 0 THEN NotRequested ELSE resp) :
           e \in {FetchOutcome(city_name, lat, lon, key, s, resp)} })

---------------------------------------------------------------------------
(* Loops over cities.  FetchEach calls fetch_weather_data for each name in *)
(* turn, threading the generator state; k counts the handler's HTTP        *)
(* requests so far, and an exception ends the loop.                        *)

RECURSIVE FetchEach(_, _, _, _, _, _)
FetchEach(names, table, key, s, w, k) ==
    IF names = <<>> THEN <<>>
    ELSE LET c == Head(names)
         IN  Only({ IF e.raised THEN <<e>>
                    ELSE <<e>> \o FetchEach(Tail(names), table, key, e.rng, w,
                                            k + e.http) :
                    e \in {fetch_weather_data(c, table[c].lat, table[c].lon, key, s,
                                              ResponseAt(w, k + 1))} })

\* the generator state after a loop that started in state s
RngAfter(log, s) == IF log = <<>> THEN s ELSE log[Len(log)].rng

AnyRaised(log) == \E i \in 1..Len(log) : log[i].raised

RECURSIVE SumHttp(_)
SumHttp(log) == IF log = <<>> THEN 0 ELSE log[1].http + SumHttp(Tail(log))

\* the names of seq that are keys of table, in order
RECURSIVE KnownNames(_, _)
KnownNames(seq, table) ==
    IF seq = <<>> THEN <<>>
    ELSE IF Head(seq) \in DOMAIN table
    THEN <<Head(seq)>> \o KnownNames(Tail(seq), table)
    ELSE KnownNames(Tail(seq), table)

Range(seq) == {seq[i] : i \in 1..Len(seq)}

\* the entry of log for city c (the last one, as a dict assignment keeps)
EntryOf(log, c) ==
    log[CHOOSE i \in 1..Len(log) :
            /\ log[i].rec.city = c
            /\ \A j \in (i + 1)..Len(log) : log[j].rec.city # c]

---------------------------------------------------------------------------
(* GET /dashboard (lines 648-750).                                         *)

NoLast == [handler |-> "none"]

\* a variant of line 679 with the assignment reversed:
\* coords['icon'] = city_data['icon']
TableIconOverwritten(table, log) ==
    [c \in DOMAIN table |->
        IF \E i \in 1..Len(log) : ~log[i].raised /\ log[i].rec.city = c
        THEN [table[c] EXCEPT !.icon = EntryOf(log, c).rec.icon]
        ELSE table[c]]

\* GUJARAT_CITIES after the loop of lines 677-680: the loop reads coords
\* and writes only the record fetch_weather_data returned
TableAfterMapLoop(table, log) == table

CountLevel(log, level) ==
    Cardinality({i \in 1..Len(log) : log[i].rec.threat_level = level})

\* the response, the table and the generator state once both loops are done
DashboardResult(table, s, main_cities, order, mainLog, allLog) ==
    [table |-> IF AnyRaised(mainLog) THEN table
               ELSE TableAfterMapLoop(table, allLog),
     rng |-> RngAfter(mainLog \o allLog, s),
     last |->
        IF AnyRaised(mainLog \o allLog)
        THEN [handler |-> "dashboard", status |-> 200, error |-> TRUE,
              log |-> mainLog \o allLog]
        ELSE [handler |-> "dashboard", status |-> 200, error |-> FALSE,
              log |-> mainLog \o allLog,
              weather_data |->
                  [c \in Range(main_cities) |-> EntryOf(mainLog, c).rec],
              all_cities_data |->
                  [c \in Range(order) |->
                      SetKey(EntryOf(allLog, c).rec, "icon", table[c].icon)],
              city_stats |->
                  [total |-> Cardinality(DOMAIN table),
                   safe |-> CountLevel(mainLog, "green"),
                   monitor |-> CountLevel(mainLog, "yellow"),
                   alert |-> CountLevel(mainLog, "red")]]]

dashboard(table, key, s, w) ==
    LET order == KnownNames(CityOrder, table)
        main_cities == SubSeq(order, 1, IF Len(order) < 4 THEN Len(order) ELSE 4)
    IN  Only({ Only({ DashboardResult(table, s, main_cities, order, mainLog, allLog) :
                      allLog \in {IF AnyRaised(mainLog) THEN <<>>
                                  ELSE FetchEach(order, table, key, RngAfter(mainLog, s),
                                                 w, SumHttp(mainLog))} }) :
               mainLog \in {FetchEach(main_cities, table, key, s, w, 0)} })

---------------------------------------------------------------------------
(* GET /api/city/<city_name> (lines 809-819).                              *)

\* a variant that looks the city up without regard to case
CityWeatherAnyCase(city_name, table, key, s, w) ==
    LET known == IF city_name = "surat" THEN "Surat" ELSE city_name
    IN  IF known \notin DOMAIN table
        THEN [table |-> table, rng |-> s,
              last |-> [handler |-> "city", name |-> city_name, status |-> 404,
                        error |-> "City not found", log |-> <<>>]]
        ELSE Only({ [table |-> table, rng |-> e.rng,
                     last |-> [handler |-> "city", name |-> city_name,
                               status |-> 200, log |-> <<e>>,
                               body |-> SetKey(e.rec, "icon_class",
                                               table[known].icon)]] :
                    e \in {fetch_weather_data(known, table[known].lat,
                                              table[known].lon, key, s,
                                              ResponseAt(w, 1))} })

get_city_weather(city_name, table, key, s, w) ==
    IF city_name \notin DOMAIN table
    THEN [table |-> table, rng |-> s,
          last |-> [handler |-> "city", name |-> city_name, status |-> 404,
                    error |-> "City not found", log |-> <<>>]]
    ELSE LET coords == table[city_name]
         IN  Only({ [table |-> table, rng |-> e.rng,
                     last |->
                        IF e.raised
                        THEN [handler |-> "city", name |-> city_name, status |-> 500,
                              error |-> "Internal Server Error", log |-> <<e>>]
                        ELSE [handler |-> "city", name |-> city_name, status |-> 200,
                              log |-> <<e>>,
                              body |-> SetKey(e.rec, "icon_class", coords.icon)]] :
                    e \in {fetch_weather_data(city_name, coords.lat, coords.lon, key,
                                              s, ResponseAt(w, 1))} })


---------------------------------------------------------------------------
(* The Gemini response text.  A text is a sequence of tokens               *)
(*   [t |-> "ws"]                 a run of whitespace                      *)
(*   [t |-> "fence"]              three backticks                          *)
(*   [t |-> "word", w |-> ...]    a run of other characters                *)
(*   [t |-> "json", v |-> ...]    the text of one JSON value v             *)
(* every token carrying the fields t, w and v.  A JSON value is            *)
(* [type |-> "object", obj |-> a record] or [type |-> another JSON type].  *)
(* An object's alert_level, reason, recommended_action are strings; its    *)
(* affected_areas is [type |-> "strings" | "numbers" | "null" | "string"]. *)

NoValue == [type |-> "none", obj |-> [none |-> 0]]
Ws == [t |-> "ws", w |-> "", v |-> NoValue]
Fence == [t |-> "fence", w |-> "", v |-> NoValue]
Word(w) == [t |-> "word", w |-> w, v |-> NoValue]
Json(v) == [t |-> "json", w |-> "", v |-> v]
Object(obj) == [type |-> "object", obj |-> obj]
Other(type) == [type |-> type, obj |-> [none |-> 0]]

RECURSIVE LStripText(_)
LStripText(t) == IF t # <<>> /\ Head(t).t = "ws" THEN LStripText(Tail(t)) ELSE t

RECURSIVE RStripText(_)
RStripText(t) ==
    IF t # <<>> /\ t[Len(t)].t = "ws"
    THEN RStripText(SubSeq(t, 1, Len(t) - 1)) ELSE t

StripText(t) == RStripText(LStripText(t))

\* lines 441-450: strip, then drop a leading ```json, a leading ``` and a
\* trailing ```
CleanText(response_text) ==
    LET t0 == StripText(response_text)
        t1 == IF Len(t0) >= 2 /\ t0[1].t = "fence" /\ t0[2].t = "word"
                 /\ t0[2].w = "json"
              THEN SubSeq(t0, 3, Len(t0)) ELSE t0
        t2 == IF t1 # <<>> /\ t1[1].t = "fence" THEN Tail(t1) ELSE t1
        t3 == IF t2 # <<>> /\ t2[Len(t2)].t = "fence"
              THEN SubSeq(t2, 1, Len(t2) - 1) ELSE t2
    IN  StripText(t3)

\* json.loads: the text must be exactly one JSON value
Loads(t) ==
    IF Len(t) = 1 /\ t[1].t = "json"
    THEN [ok |-> TRUE, v |-> t[1].v] ELSE [ok |-> FALSE, v |-> NoValue]

RequiredFields == {"alert_level", "reason", "recommended_action"}

---------------------------------------------------------------------------
(* get_fallback_analysis (lines 471-493).                                  *)

get_fallback_analysis ==
    [alert_level |-> "green",
     overall_threat_score |-> 3,
     primary_concerns |-> <<"Normal coastal conditions">>,
     reason |-> "Current weather conditions are within normal parameters for Gujarat coastal regions. Wind speeds and sea conditions are manageable for routine coastal activities.",
     recommended_action |-> "Continue normal coastal operations with standard safety precautions. Monitor weather updates regularly.",
     affected_areas |-> [type |-> "strings", items |-> <<"Gujarat Coast">>],
     risk_factors |-> [wind_risk |-> "low", wave_risk |-> "low",
                       visibility_risk |-> "low", temperature_risk |-> "low"],
     forecast_trend |-> "stable",
     emergency_contacts |-> "Contact local authorities if conditions change",
     last_updated |-> "now",
     data_source |-> "Fallback analysis - AI unavailable"]

---------------------------------------------------------------------------
(* parse_gemini_response (lines 436-469).                                  *)

\* a variant without the required-field check of lines 456-459
ParseUnvalidated(response_text) ==
    LET parsed == Loads(CleanText(response_text))
    IN  IF ~parsed.ok \/ parsed.v.type # "object" THEN get_fallback_analysis
        ELSE parsed.v.obj

\* a variant without the alert_level replacement of lines 461-463
ParseLevelKept(response_text) ==
    LET parsed == Loads(CleanText(response_text))
    IN  IF ~parsed.ok \/ parsed.v.type # "object" THEN get_fallback_analysis
        ELSE IF \E f \in RequiredFields : ~Has(parsed.v.obj, f)
        THEN get_fallback_analysis
        ELSE parsed.v.obj

parse_gemini_response(response_text) ==
    LET parsed == Loads(CleanText(response_text))
    IN  IF ~parsed.ok THEN get_fallback_analysis
        \* a JSON array, number or string fails the field check or the
        \* subscript with an exception, caught at line 467
        ELSE IF parsed.v.type # "object" THEN get_fallback_analysis
        ELSE IF \E f \in RequiredFields : ~Has(parsed.v.obj, f)
        THEN get_fallback_analysis
        ELSE IF parsed.v.obj.alert_level \notin ThreatLevels
        THEN [parsed.v.obj EXCEPT !.alert_level = "green"]
        ELSE parsed.v.obj


---------------------------------------------------------------------------
(* call_gemini_api (lines 365-395).  g is what model.generate_content and  *)
(* response.text do: [kind |-> "raises"] or [kind |-> "text", text |-> t]. *)

GeminiKeyValues ==
    { [set |-> FALSE, val |-> <<>>],
      [set |-> TRUE, val |-> <<>>],
      [set |-> TRUE, val |-> <<"AIza">>] }

\* if not GEMINI_API_KEY (line 370)
GeminiKeyMissing(gkey) == ~gkey.set \/ gkey.val = <<>>

call_gemini_api(weather_data, gkey, g) ==
    IF GeminiKeyMissing(gkey) THEN get_fallback_analysis
    ELSE IF g.kind = "raises" THEN get_fallback_analysis
    ELSE parse_gemini_response(g.text)

---------------------------------------------------------------------------
(* analyze_coastal_threat (lines 324-363).                                 *)

critical_locations == <<"Dwarka", "Kandla", "Mandvi", "Veraval">>

\* lines 348-363, once the loop of lines 342-346 has produced log
AnalyzeFetched(locs, log, s, gkey, g) ==
    IF AnyRaised(log)
    THEN [analysis |-> get_fallback_analysis, log |-> log,
          gemini_called |-> FALSE, gemini_input |-> <<>>,
          rng |-> RngAfter(log, s)]
    ELSE IF locs # <<>>
    THEN Only({ [analysis |-> call_gemini_api(weather_analysis_data, gkey, g),
                 log |-> log,
                 gemini_called |-> TRUE, gemini_input |-> weather_analysis_data,
                 rng |-> RngAfter(log, s)] :
                weather_analysis_data \in
                    {[c \in Range(locs) |-> EntryOf(log, c).rec]} })
    ELSE Only({ Only({ [analysis |->
                           call_gemini_api([c \in {"Dwarka", "Kandla"} |->
                                               IF c = "Dwarka" THEN m1.rec ELSE m2.rec],
                                           gkey, g),
                        log |-> log,
                        gemini_called |-> TRUE,
                        gemini_input |-> [c \in {"Dwarka", "Kandla"} |->
                                             IF c = "Dwarka" THEN m1.rec ELSE m2.rec],
                        rng |-> m2.rng] :
                       m2 \in {get_mock_weather_data("Kandla", m1.rng)} }) :
                m1 \in {get_mock_weather_data("Dwarka", s)} })

analyze_coastal_threat(table, key, s, w, gkey, g) ==
    LET locs == KnownNames(critical_locations, table)
    IN  Only({ AnalyzeFetched(locs, log, s, gkey, g) :
               log \in {FetchEach(locs, table, key, s, w, 0)} })

---------------------------------------------------------------------------
(* GET /api/ai-analysis (lines 575-645).                                   *)

DefaultAreas == [type |-> "strings", items |-> <<"Gujarat Coast">>]

\* ', '.join(x) raises TypeError unless x is a str or holds only strs
JoinRaises(areas) == areas.type \notin {"strings", "string"}

\* the response of the except clause (lines 618-645)
AiErrorResponse ==
    [status |-> 500,
     body |-> [success |-> FALSE,
               error |-> TRUE,
               ai_alert |-> [title |-> "AI Threat Assessment - Service Unavailable",
                             location |-> "Gujarat Coast",
                             time |-> "Error occurred",
                             level |-> "yellow",
                             icon |-> "fa-exclamation-triangle",
                             priority |-> "yellow",
                             recommended_action |-> "Manual monitoring recommended",
                             threat_score |-> 3,
                             forecast_trend |-> "unknown",
                             data_source |-> "Fallback Analysis",
                             is_placeholder |-> FALSE],
               ai_analysis |-> get_fallback_analysis]]

\* the response of lines 591-616 for an analysis a
AiResponse(a) ==
    [status |-> 200,
     body |-> [success |-> TRUE,
               ai_alert |->
                  [title |-> <<"AI Threat Assessment - ",
                               Upper(Get(a, "alert_level", "unknown")), " Alert">>,
                   description |-> Get(a, "reason", "Analysis unavailable"),
                   location |-> Get(a, "affected_areas", DefaultAreas),
                   time |-> Get(a, "last_updated", "Unknown"),
                   level |-> Get(a, "alert_level", "green"),
                   icon |-> "fa-brain",
                   priority |-> Get(a, "alert_level", "green"),
                   recommended_action |->
                       Get(a, "recommended_action", "Monitor conditions"),
                   threat_score |-> Get(a, "overall_threat_score", 3),
                   forecast_trend |-> Get(a, "forecast_trend", "stable"),
                   data_source |-> Get(a, "data_source", "Gemini AI Analysis"),
                   is_placeholder |-> FALSE],
               ai_analysis |-> a,
               timestamp |-> Get(a, "last_updated", "Unknown")]]

\* lines 588-645, once analyze_coastal_threat has returned r
AiAnswer(r) ==
    IF JoinRaises(Get(r.analysis, "affected_areas", DefaultAreas))
    THEN AiErrorResponse ELSE AiResponse(r.analysis)

get_ai_analysis(table, key, s, w, gkey, g) ==
    Only({ [table |-> table, rng |-> r.rng,
            last |-> [handler |-> "ai", status |-> AiAnswer(r).status,
                      body |-> AiAnswer(r).body, log |-> r.log,
                      gemini |-> g.kind,
                      gemini_called |-> r.gemini_called,
                      gemini_input |-> r.gemini_input]] :
           r \in {analyze_coastal_threat(table, key, s, w, gkey, g)} })


---------------------------------------------------------------------------
(* Communication services (lines 499-543).  A text is a sequence of        *)
(* character codes; a phone number or address is a sequence of characters. *)
(* smtp: SMTP_USERNAME and SMTP_PASSWORD are both set; twilio: the client  *)
(* was initialised; delivers: the provider accepts the message (otherwise  *)
(* the library raises).                                                    *)

\* len(timestamp) for '%Y-%m-%d %H:%M:%S'
TimestampLen == 19
\* the characters of the SMS text of line 872 around the timestamp
DefaultSmsFixedLen == 82
\* the characters of default_message (lines 845-860) around its fields
DefaultMessageFixedLen == 359

Blank(n) == [i \in 1..n |-> 0]

send_email(to_email, subject, message, smtp, delivers) ==
    IF ~smtp
    THEN [result |-> [success |-> FALSE, error |-> "Email credentials not configured"],
          sent |-> <<>>]
    ELSE IF delivers
    THEN [result |-> [success |-> TRUE, message |-> "Email sent successfully"],
          sent |-> <<[via |-> "smtp", to |-> to_email, body |-> message]>>]
    ELSE [result |-> [success |-> FALSE, error |-> "exception"], sent |-> <<>>]

send_sms(to_phone, message, twilio, delivers) ==
    LET to == IF to_phone # <<>> /\ Head(to_phone) = "+" THEN to_phone
              ELSE <<"+", "9", "1">> \o to_phone
    IN  IF ~twilio
        THEN [result |-> [success |-> FALSE, error |-> "Twilio client not initialized"],
              sent |-> <<>>]
        ELSE IF delivers
        THEN [result |-> [success |-> TRUE, message |-> "SMS sent successfully"],
              sent |-> <<[via |-> "twilio", to |-> to, body |-> message]>>]
        ELSE [result |-> [success |-> FALSE, error |-> "exception"], sent |-> <<>>]

---------------------------------------------------------------------------
(* POST /api/test-communications (lines 827-885).  data is the request's   *)
(* JSON object: a record with the optional keys type, recipient, message.  *)


\* a variant of line 836 that tests the type only
MissingType(service_type, recipient) == service_type = ""

\* if not service_type or not recipient (line 836)
MissingFields(service_type, recipient) == service_type = "" \/ recipient = <<>>

\* a variant of line 874 that keeps one character more: custom_message[:161]
TruncateOneMore(text, n) ==
    SubSeq(text, 1, IF Len(text) < n + 1 THEN Len(text) ELSE n + 1)

\* custom_message[:160]
Truncate(text, n) == SubSeq(text, 1, IF Len(text) < n THEN Len(text) ELSE n)

\* data.message_json names the JSON type of a 'message' that is not a
\* string: "number" is a nonzero number, which is truthy and cannot be
\* sliced.  calls lists the calls of send_email / send_sms with their
\* arguments, sent the messages a provider accepted.
api_test_communications(data, smtp, twilio, delivers) ==
    LET service_type == Get(data, "type", "")
        recipient == Get(data, "recipient", <<>>)
        custom_message == Get(data, "message", <<>>)
        textual == Get(data, "message_json", "string") = "string"
        typeLen == IF service_type = "sms" THEN 3 ELSE 5
        default_message == Blank(DefaultMessageFixedLen + TimestampLen + 2 * typeLen)
        message == IF custom_message # <<>> THEN custom_message ELSE default_message
        sms_message == IF custom_message # <<>> THEN Truncate(custom_message, SmsLimit)
                       ELSE Blank(DefaultSmsFixedLen + TimestampLen)
        \* MIMEText(message) raises inside send_email's try for a number
        out == IF service_type = "email"
               THEN send_email(recipient, "CoastalGuard AI Test Alert", message,
                               smtp, delivers /\ textual)
               ELSE send_sms(recipient, sms_message, twilio, delivers)
        call == IF service_type = "email"
                THEN [fn |-> "send_email", to |-> recipient, body |-> message]
                ELSE [fn |-> "send_sms", to |-> recipient, body |-> sms_message]
    IN  IF MissingFields(service_type, recipient)
        THEN [handler |-> "comm", status |-> 200, calls |-> <<>>, sent |-> <<>>,
              body |-> [success |-> FALSE,
                        error |-> "Missing required fields: type and recipient"]]
        ELSE IF service_type \notin {"email", "sms"}
        THEN [handler |-> "comm", status |-> 200, calls |-> <<>>, sent |-> <<>>,
              body |-> [success |-> FALSE,
                        error |-> "Invalid service type. Only 'email' and 'sms' are supported."]]
        \* custom_message[:160] raises TypeError, caught at line 884
        ELSE IF service_type = "sms" /\ custom_message # <<>> /\ ~textual
        THEN [handler |-> "comm", status |-> 200, calls |-> <<>>, sent |-> <<>>,
              body |-> [success |-> FALSE, error |-> "exception"]]
        ELSE [handler |-> "comm", status |-> 200,
              calls |-> <<call>>,
              sent |-> out.sent,
              body |-> SetKey(SetKey(SetKey(out.result, "timestamp", <<"now">>),
                                      "service_type", <<service_type>>),
                               "recipient", recipient)]

---------------------------------------------------------------------------
(* The state machine: one action per request handler, and the edit of the  *)
(* .env file that load_dotenv(override=True) (line 123) picks up.          *)

\* configurations at import: the Gemini key, whether both SMTP credentials
\* are set, whether the Twilio client was created
Envs ==
    { [gemini |-> [set |-> FALSE, val |-> <<>>], smtp |-> FALSE, twilio |-> FALSE],
      [gemini |-> [set |-> TRUE, val |-> <<>>], smtp |-> FALSE, twilio |-> TRUE],
      [gemini |-> [set |-> TRUE, val |-> <<"AIza">>], smtp |-> TRUE, twilio |-> FALSE],
      [gemini |-> [set |-> TRUE, val |-> <<"AIza">>], smtp |-> TRUE, twilio |-> TRUE] }

Worlds == 0..(NumResponses - 1)

\* city names a client may ask for: the ten cities and two others
CityNames == Range(CityOrder) \cup {"Kandla", "surat"}

Analysis(level, areas) ==
    [alert_level |-> level, overall_threat_score |-> 7,
     reason |-> "High winds near the coast",
     recommended_action |-> "Suspend fishing operations",
     affected_areas |-> areas, forecast_trend |-> "deteriorating",
     last_updated |-> "2025-08-30 10:00:00"]

Strings(items) == [type |-> "strings", items |-> items]

\* what the Gemini call does; shape names what the text holds
GeminiOutcomes ==
    LET red == Object(Analysis("red", Strings(<<"Dwarka", "Veraval">>)))
        Text(shape, t) == [kind |-> "text", shape |-> shape, text |-> t]
    IN  { [kind |-> "raises", shape |-> "none", text |-> <<>>],
          Text("valid", <<Fence, Word("json"), Ws, Json(red), Ws, Fence, Ws>>),
          Text("valid", <<Ws, Json(Object(DropKey(Analysis("yellow", Strings(<<>>)),
                                                  "affected_areas")))>>),
          Text("bad_level", <<Json(Object(Analysis("orange", Strings(<<"Okha">>))))>>),
          Text("bad_areas", <<Json(Object(Analysis("red", [type |-> "null", items |-> <<>>])))>>),
          Text("not_json", <<Word("Here"), Ws, Json(red)>>),
          Text("not_json", <<Fence, Word("python"), Ws, Json(red), Ws, Fence>>),
          Text("missing_field", <<Json(Object(DropKey(Analysis("red", Strings(<<"Okha">>)),
                                                      "recommended_action")))>>),
          Text("non_object", <<Json(Other("array"))>>) }

\* a custom message of n characters, the i-th being i
Message(n) == [i \in 1..n |-> i]

\* the longest custom message tried, in characters beyond the SMS limit
MaxOverLimit == 3

CommRequests ==
    LET types == {"email", "sms"}
        recipients == {<<"+", "9", "1", "9">>, <<"9", "8">>}
        messages == {<<>>, Message(SmsLimit), Message(SmsLimit + MaxOverLimit)}
    IN  [type : types, recipient : recipients, message : messages]
        \cup {[type |-> "sms"], [recipient |-> <<"9", "8">>],
              [type |-> "", recipient |-> <<"9", "8">>, message |-> Message(2)],
              [type |-> "sms", recipient |-> <<>>, message |-> Message(2)],
              [type |-> "whatsapp", recipient |-> <<"9", "8">>, message |-> <<>>],
              [type |-> "email", recipient |-> <<"a", "@", "b">>],
              [type |-> "sms", recipient |-> <<"9", "8">>, message |-> Message(1),
               message_json |-> "number"],
              [type |-> "email", recipient |-> <<"a", "@", "b">>,
               message |-> Message(1), message_json |-> "number"]}

NoArg == [none |-> 0]

Init ==
    /\ apiKey \in KeyValues
    /\ env \in Envs
    /\ cities = GUJARAT_CITIES
    /\ rng \in 0..(RngMod - 1)
    /\ last = NoLast
    /\ arg = NoArg

Idle == last = NoLast

Dashboard ==
    /\ Idle
    /\ \E w \in Worlds :
        \E r \in {dashboard(cities, apiKey, rng, w)} :
            /\ cities' = r.table
            /\ rng' = r.rng
            /\ last' = r.last
            /\ UNCHANGED <<apiKey, env, arg>>

GetCityWeather ==
    /\ Idle
    /\ \E city_name \in CityNames, w \in Worlds :
        \E r \in {get_city_weather(city_name, cities, apiKey, rng, w)} :
            /\ cities' = r.table
            /\ rng' = r.rng
            /\ last' = r.last
            /\ UNCHANGED <<apiKey, env, arg>>

GetAiAnalysis ==
    /\ Idle
    /\ \E w \in Worlds, g \in GeminiOutcomes :
        \E r \in {get_ai_analysis(cities, apiKey, rng, w, env.gemini, g)} :
            /\ cities' = r.table
            /\ rng' = r.rng
            /\ last' = SetKey(r.last, "shape", g.shape)
            /\ UNCHANGED <<apiKey, env, arg>>

ApiTestCommunications ==
    \E data \in CommRequests, delivers \in BOOLEAN :
        /\ Idle
        /\ last' = SetKey(api_test_communications(data, env.smtp, env.twilio, delivers),
                          "request", data)
        /\ UNCHANGED <<apiKey, env, cities, rng, arg>>

EditEnvFile ==
    \E k \in KeyValues :
        /\ Idle
        /\ apiKey' = k
        /\ UNCHANGED <<env, cities, rng, last, arg>>

\* the response is sent; nothing of it stays in the process
Respond ==
    /\ ~Idle
    /\ last' = NoLast
    /\ UNCHANGED <<apiKey, env, cities, rng, arg>>

Next ==
    \/ Dashboard
    \/ GetCityWeather
    \/ GetAiAnalysis
    \/ ApiTestCommunications
    \/ EditEnvFile
    \/ Respond

Spec == Init /\ [][Next]_vars


---------------------------------------------------------------------------
(* calculate_threat_level on its own: Init draws a response around the     *)
(* thresholds, the action classifies it.                                   *)

ThreatInputs ==
    LET temps == {28 * TempScale, 35 * TempScale - 1, 35 * TempScale,
                  35 * TempScale + 1, 40 * TempScale - 1, 40 * TempScale,
                  40 * TempScale + 1}
        \* 30 km/h = 75/9 m/s, 50 km/h = 125/9 m/s
        slow == (75 * SpeedScale) \div 9
        fast == (125 * SpeedScale) \div 9
        speeds == {3 * SpeedScale, slow - 1, slow, slow + 1, fast - 1, fast, fast + 1}
        pressures == {989, 990, 991, 999, 1000, 1001, 1013}
    IN  { [main |-> [temp |-> t, humidity |-> h, pressure |-> p],
           wind |-> [speed |-> v, deg |-> 4 * h],
           clouds |-> [all |-> h]] :
          t \in temps, v \in speeds, p \in pressures, h \in {40, 90} }

InitThreat ==
    /\ apiKey = [set |-> FALSE, val |-> <<>>]
    /\ env \in {e \in Envs : ~e.gemini.set}
    /\ cities = GUJARAT_CITIES
    /\ rng = 0
    /\ last = NoLast
    /\ arg \in ThreatInputs

ClassifyThreat ==
    /\ Idle
    /\ last' = [handler |-> "threat", level |-> calculate_threat_level(arg)]
    /\ UNCHANGED <<apiKey, env, cities, rng, arg>>

NextThreat == ClassifyThreat

SpecThreat == InitThreat /\ [][NextThreat]_vars

\* C1: calculate_threat_level returns 'red' exactly when temp > 40 or
\* wind (m/s * 3.6) > 50 km/h or pressure < 990; otherwise 'yellow' exactly
\* when temp > 35 or wind > 30 km/h or pressure < 1000; otherwise 'green'.
\* The comparisons are strict and the result depends on nothing but temp,
\* wind speed and pressure.
C1_ThreatThresholds ==
    last.handler = "threat" =>
        LET t == arg.main.temp
            kmh == arg.wind.speed * 36
            p == arg.main.pressure
            red == t > 40 * TempScale \/ kmh > 50 * 10 * SpeedScale \/ p < 990
            yellow == t > 35 * TempScale \/ kmh > 30 * 10 * SpeedScale \/ p < 1000
        IN  /\ last.level = "red" <=> red
            /\ last.level = "yellow" <=> (~red /\ yellow)
            /\ last.level = "green" <=> (~red /\ ~yellow)

\* a response exactly on the three red thresholds is classified 'yellow'
C1_Witness ==
    /\ last.handler = "threat"
    /\ arg.main.temp = 40 * TempScale
    /\ arg.wind.speed * 36 = 50 * 10 * SpeedScale
    /\ arg.main.pressure = 990
    /\ last.level = "yellow"

---------------------------------------------------------------------------
(* get_mock_weather_data on its own: Init draws the generator state and    *)
(* the city, the action generates records one after the other.             *)

InitMock ==
    /\ apiKey = [set |-> FALSE, val |-> <<>>]
    /\ env \in {e \in Envs : ~e.gemini.set}
    /\ cities = GUJARAT_CITIES
    /\ rng \in 0..(RngMod - 1)
    /\ last = NoLast
    /\ arg \in [city : CityNames]

GenerateMock ==
    \E m \in {get_mock_weather_data(arg.city, rng)} :
        /\ last' = [handler |-> "mock", rec |-> m.rec]
        /\ rng' = m.rng
        /\ UNCHANGED <<apiKey, env, cities, arg>>

NextMock == GenerateMock

SpecMock == InitMock /\ [][NextMock]_vars

\* C5: every record of get_mock_weather_data has its values in the fixed
\* ranges, and so temp_min < temperature < temp_max.
C5_MockRanges ==
    last.handler = "mock" =>
        LET r == last.rec
        IN  /\ r.temperature \in 25..35
            /\ r.temp_min \in (r.temperature - 5)..(r.temperature - 2)
            /\ r.temp_max \in (r.temperature + 2)..(r.temperature + 5)
            /\ r.feels_like \in (r.temperature - 2)..(r.temperature + 4)
            /\ r.humidity \in 60..85
            /\ r.pressure \in 1010..1020
            /\ r.sea_level_pressure \in 1012..1022
            /\ r.wind_speed \in 10..25
            /\ r.wind_direction \in 0..360
            /\ r.wind_gust \in 15..35
            /\ r.clouds \in 10..40
            /\ r.uv_index \in 3..8
            /\ r.air_quality.aqi \in 20..80
            /\ r.temp_min < r.temperature
            /\ r.temperature < r.temp_max

\* a mock record at the upper end of the temperature range
C5_Witness ==
    /\ last.handler = "mock"
    /\ last.rec.temperature = 35
    /\ last.rec.temp_max > 35
    /\ last.rec.city = arg.city


---------------------------------------------------------------------------
(* Properties of the request handlers, under Spec.                         *)

\* the handlers whose answer carries a log of fetch_weather_data calls
Fetching == {"dashboard", "city", "ai"}

\* the log entries of the answer in flight
Entries == IF last.handler \in Fetching THEN Range(last.log) ELSE {}

\* the records fetch_weather_data returned
Returned == {e \in Entries : ~e.raised}

\* the threshold classification read off a record's own fields: whole
\* degrees, whole km/h, hPa
ClassifyRecord(rec) ==
    IF rec.temperature > 40 \/ rec.wind_speed > 50 \/ rec.pressure < 990
    THEN "red"
    ELSE IF rec.temperature > 35 \/ rec.wind_speed > 30 \/ rec.pressure < 1000
    THEN "yellow"
    ELSE "green"

\* the threshold classification read off the provider's response
ClassifyResponse(data) ==
    IF data.main.temp > 40 * TempScale
       \/ data.wind.speed * 36 > 50 * 10 * SpeedScale
       \/ data.main.pressure < 990
    THEN "red"
    ELSE IF data.main.temp > 35 * TempScale
            \/ data.wind.speed * 36 > 30 * 10 * SpeedScale
            \/ data.main.pressure < 1000
    THEN "yellow"
    ELSE "green"

\* a record as get_mock_weather_data builds it for city c
IsMockFor(rec, c) ==
    /\ rec.city = c
    /\ rec.threat_level = "green"
    /\ rec.icon = "01d"
    /\ rec.country = "IN"
    /\ rec.coordinates = [lat |-> 220000, lon |-> 710000]
    /\ rec.temperature \in 25..35

\* the records a handler hands on to the template or the client
HandedOn ==
    IF last.handler = "dashboard" /\ ~last.error
    THEN {last.weather_data[c] : c \in DOMAIN last.weather_data}
         \cup {last.all_cities_data[c] : c \in DOMAIN last.all_cities_data}
    ELSE IF last.handler = "city" /\ last.status = 200 THEN {last.body}
    ELSE {}

\* C2: every weather record fetch_weather_data returns, on the API path and
\* on every mock path, has threat_level in {green, yellow, red}, and so has
\* every record /dashboard and /api/city/<name> hand on.
C2_ThreatLevelInEnum ==
    /\ \A e \in Returned : e.rec.threat_level \in {"green", "yellow", "red"}
    /\ \A r \in HandedOn : r.threat_level \in {"green", "yellow", "red"}

\* a dashboard answer holding a red record built from a response and a
\* mock record
C2_Witness ==
    /\ last.handler = "dashboard"
    /\ \E e \in Returned : e.path = "api" /\ e.rec.threat_level = "red"
    /\ \E e \in Returned : e.path = "request_error"
    /\ \E c \in DOMAIN last.all_cities_data :
           last.all_cities_data[c].threat_level = "yellow"

\* C3 as stated: threat_level equals the threshold classification of the
\* same record's temperature, wind_speed and pressure fields.
C3_RecordClassified ==
    \A e \in Returned : e.rec.threat_level = ClassifyRecord(e.rec)

\* C3 as amended: threat_level is the threshold classification of the
\* response's unrounded temp, speed * 3.6 and pressure when the record is
\* built from a response, and of the record's own fields when it is a mock
\* record.
C3_ThreatFromResponse ==
    \A e \in Returned :
        IF e.path = "api"
        THEN e.rec.threat_level = ClassifyResponse(e.data)
        ELSE e.rec.threat_level = ClassifyRecord(e.rec)

\* 40.4 degrees: the record shows 40 and is 'red'
C3_Witness ==
    \E e \in Returned :
        /\ e.path = "api"
        /\ e.data.main.temp > 40 * TempScale
        /\ e.rec.temperature = 40
        /\ e.rec.wind_speed <= 50
        /\ e.rec.pressure >= 990
        /\ e.rec.threat_level = "red"

\* the key as line 149 rejects it: missing, empty, whitespace only, or the
\* placeholder
KeyRejected ==
    \/ ~apiKey.set
    \/ \A i \in 1..Len(apiKey.val) : apiKey.val[i] \in {" ", "\t"}
    \/ apiKey.val = <<"your-openweathermap-api-key">>

\* the response lacks a field the record needs
LacksRequired(data) ==
    \/ \E k \in {"main", "wind", "weather", "clouds", "sys"} : k \notin DOMAIN data
    \/ \E k \in {"temp", "feels_like", "temp_min", "temp_max", "humidity",
                 "pressure"} : k \notin DOMAIN data.main
    \/ "speed" \notin DOMAIN data.wind
    \/ "all" \notin DOMAIN data.clouds
    \/ \E k \in {"sunrise", "sunset", "country"} : k \notin DOMAIN data.sys
    \/ data.weather # <<>> /\
       \E k \in {"description", "main", "icon"} : k \notin DOMAIN data.weather[1]

\* C4: fetch_weather_data never raises; with the key missing, blank or the
\* placeholder, the request failed or answered non-2xx, or the response
\* lacking a required field, it returns a mock record for the requested
\* city, whose threat_level is 'green'.
C4_FallbackNeverRaises ==
    \A e \in Entries :
        /\ ~e.raised
        /\ ( \/ KeyRejected
             \/ e.resp.kind \in {"timeout", "http_error"}
             \/ (e.resp.kind = "ok" /\ LacksRequired(e.resp.data)) )
           => IsMockFor(e.rec, e.city_name)

\* a timed out request and a response without 'sys', both answered by a
\* mock record
C4_Witness ==
    /\ ~KeyRejected
    /\ \E e \in Entries : e.resp.kind = "timeout" /\ IsMockFor(e.rec, e.city_name)
    /\ \E e \in Entries :
           /\ e.resp.kind = "ok"
           /\ "sys" \notin DOMAIN e.resp.data
           /\ IsMockFor(e.rec, e.city_name)


\* the records built from a provider response, with the response
FromResponse == {e \in Returned : e.path = "api"}

\* x is the integer nearest to n / d, the even one of two equally near
NearestInteger(x, n, d) ==
    /\ 2 * (x * d - n) <= d
    /\ 2 * (n - x * d) <= d
    /\ (2 * (x * d - n) = d \/ 2 * (n - x * d) = d) => x % 2 = 0

\* the response's visibility in metres, 10000 when it has none
VisibilityMetres(data) ==
    IF "visibility" \in DOMAIN data THEN data.visibility ELSE 10000

\* the record's visibility is metres / 1000, nothing dropped
VisibilityExact(e) ==
    e.rec.visibility.whole * 1000 + e.rec.visibility.frac = VisibilityMetres(e.data)

\* C6 as stated: wind_speed and wind_gust equal the response's m/s value
\* times 3.6, and visibility equals the response's metres / 1000 (10 km
\* without a visibility), with nothing lost.
C6_ConversionsExact ==
    \A e \in FromResponse :
        /\ e.rec.wind_speed * KmhUnit = e.data.wind.speed * 36
        /\ "gust" \in DOMAIN e.data.wind
             => e.rec.wind_gust * KmhUnit = e.data.wind.gust * 36
        /\ VisibilityExact(e)

\* C6 as amended: wind_speed is the integer nearest to speed * 3.6 (ties to
\* the even one), wind_gust likewise and 0 when the response has no gust or
\* a gust of 0; visibility is metres / 1000 with nothing dropped, 10 km
\* when the response has no visibility.
C6_ConversionsRounded ==
    \A e \in FromResponse :
        /\ NearestInteger(e.rec.wind_speed, e.data.wind.speed * 36, KmhUnit)
        /\ IF "gust" \in DOMAIN e.data.wind /\ e.data.wind.gust # 0
           THEN NearestInteger(e.rec.wind_gust, e.data.wind.gust * 36, KmhUnit)
           ELSE e.rec.wind_gust = 0
        /\ VisibilityExact(e)

\* a speed whose km/h value is not whole and is rounded up, in a record
\* whose visibility keeps its fraction
C6_Witness ==
    \E e \in FromResponse :
        /\ e.rec.wind_speed * KmhUnit > e.data.wind.speed * 36
        /\ (e.rec.wind_speed - 1) * KmhUnit < e.data.wind.speed * 36
        /\ e.rec.visibility.frac # 0

\* the weather requests of the answer in flight
Requests == IF last.handler \in Fetching THEN SumHttp(last.log) ELSE 0

C8_NoSharedStateChange ==
    /\ cities = GUJARAT_CITIES
    /\ Cardinality(DOMAIN cities) = 10
    /\ \A e \in Returned :
          /\ "icon_class" \notin DOMAIN e.rec
          /\ e.rec.icon \notin IconClasses

\* /dashboard has written every city's icon class into the record it hands
\* on, over the provider's icon of the record fetch_weather_data returned
C8_Witness ==
    /\ last.handler = "dashboard"
    /\ ~last.error
    /\ DOMAIN last.all_cities_data = DOMAIN GUJARAT_CITIES
    /\ \A c \in DOMAIN last.all_cities_data :
          /\ last.all_cities_data[c].icon = GUJARAT_CITIES[c].icon
          /\ \E e \in Returned :
                e.rec.city = c /\ e.rec.icon # GUJARAT_CITIES[c].icon
    /\ \E e \in FromResponse : e.rec.icon = "10d"
    /\ cities = GUJARAT_CITIES

\* the analysis /api/ai-analysis answers with is the static fallback
AnsweredFallback ==
    /\ last.status = 200
    /\ last.body.success
    /\ DropKey(last.body.ai_analysis, "last_updated")
          = DropKey(get_fallback_analysis, "last_updated")
    /\ last.body.ai_analysis.alert_level = "green"
    /\ last.body.ai_analysis.data_source = "Fallback analysis - AI unavailable"
    /\ last.body.ai_alert.level = "green"

\* the body of the handler's except clause
AnsweredError ==
    /\ last.status = 500
    /\ last.body.success = FALSE
    /\ last.body.error
    /\ last.body.ai_alert.level = "yellow"
    /\ last.body.ai_analysis = get_fallback_analysis

\* a weather fetch of the answer in flight fell back to mock data
WeatherFetchFailed == \E e \in Entries : e.path # "api"

\* the Gemini key is missing, the call failed or its text cannot be parsed
GeminiUnavailable ==
    \/ ~env.gemini.set
    \/ env.gemini.val = <<>>
    \/ last.gemini = "raises"
    \/ last.shape = "not_json"

\* C9 as stated: a missing Gemini key, a failed Gemini call, an unparsable
\* response or a failed weather fetch gives 200, success and the fallback
\* analysis; 500 comes with success = false, an error, an ai_alert of level
\* 'yellow' and the fallback analysis.
C9_AllFailuresFallback ==
    last.handler = "ai" =>
        /\ (GeminiUnavailable \/ WeatherFetchFailed) => AnsweredFallback
        /\ last.status = 500 => AnsweredError

\* C9 as amended: a missing Gemini key, a failed Gemini call or a response
\* that is not JSON, not an object or lacks a required field gives 200,
\* success and the fallback analysis; a failed weather fetch never turns
\* the answer into a 500 and leaves the analysis to the Gemini path; 500
\* is answered exactly when ', '.join fails on the affected_areas of a
\* parsed response, with success = false, an error, an ai_alert of level
\* 'yellow' and the fallback analysis.
C9_GeminiFailuresFallback ==
    last.handler = "ai" =>
        /\ last.status \in {200, 500}
        /\ (GeminiUnavailable \/ last.shape \in {"non_object", "missing_field"})
              => AnsweredFallback
        /\ last.status = 500 <=> (~GeminiUnavailable /\ last.shape = "bad_areas")
        /\ last.status = 500 => AnsweredError
        /\ last.status = 200 => last.body.success
        /\ \A e \in Entries : ~e.raised

\* every weather fetch failed and Gemini answered: 200 with Gemini's 'red'
\* analysis, not the fallback
C9_Witness ==
    /\ last.handler = "ai"
    /\ \A e \in Entries : e.path = "request_error"
    /\ Entries # {}
    /\ last.shape = "valid"
    /\ last.status = 200
    /\ last.body.success
    /\ last.body.ai_analysis.alert_level = "red"
    /\ last.body.ai_alert.data_source = "Gemini AI Analysis"

\* C10: whenever analyze_coastal_threat calls call_gemini_api, the weather
\* data it passes holds, for each of Dwarka, Kandla, Mandvi and Veraval, a
\* record keyed by that name.
C10_CriticalLocationsAnalyzed ==
    (last.handler = "ai" /\ last.gemini_called) =>
        \A c \in {"Dwarka", "Kandla", "Mandvi", "Veraval"} :
            /\ c \in DOMAIN last.gemini_input
            /\ last.gemini_input[c].city = c

---------------------------------------------------------------------------
(* parse_gemini_response on its own: Init draws the text, the action       *)
(* parses it.                                                              *)

\* the JSON values a text may hold
JsonValues ==
    LET full(level) == Analysis(level, Strings(<<"Okha">>))
    IN  {Object(full(level)) : level \in {"green", "yellow", "red", "orange", "RED", ""}}
        \cup {Object(DropKey(full("red"), f)) : f \in RequiredFields}
        \cup {Object(DropKey(full("orange"), "recommended_action")),
              Object(DropKey(full("yellow"), "affected_areas")),
              Object(DropKey(DropKey(full("purple"), "affected_areas"), "last_updated"))}
        \cup {Other(type) : type \in {"array", "string", "number", "null"}}

\* the texts parse_gemini_response is applied to
ParseTexts ==
    LET before == {<<>>, <<Ws>>, <<Fence>>, <<Fence, Ws>>, <<Fence, Word("json")>>,
                   <<Ws, Fence, Word("json"), Ws>>, <<Fence, Ws, Word("json"), Ws>>,
                   <<Fence, Word("json"), Fence>>, <<Fence, Word("json"), Ws, Fence>>,
                   <<Fence, Word("python"), Ws>>, <<Word("Here"), Ws>>,
                   <<Fence, Fence>>}
        after == {<<>>, <<Ws>>, <<Fence>>, <<Ws, Fence, Ws>>, <<Fence, Fence>>,
                  <<Ws, Word("Done")>>}
        middle == {<<>>} \cup {<<Json(v)>> : v \in JsonValues}
                  \cup {<<Json(Other("number")), Ws, Json(Other("number"))>>}
    IN  {b \o m \o a : b \in before, m \in middle, a \in after}

InitParse ==
    /\ apiKey = [set |-> FALSE, val |-> <<>>]
    /\ env \in {e \in Envs : ~e.gemini.set}
    /\ cities = GUJARAT_CITIES
    /\ rng = 0
    /\ last = NoLast
    /\ arg \in [text : ParseTexts]

ParseText ==
    /\ Idle
    /\ last' = [handler |-> "parse", analysis |-> parse_gemini_response(arg.text)]
    /\ UNCHANGED <<apiKey, env, cities, rng, arg>>

NextParse == ParseText

SpecParse == InitParse /\ [][NextParse]_vars

\* text without its first and last token when these are whitespace
Trimmed(t) ==
    LET a == IF t # <<>> /\ t[1].t = "ws" THEN 2 ELSE 1
        b == IF t # <<>> /\ t[Len(t)].t = "ws" THEN Len(t) - 1 ELSE Len(t)
    IN  SubSeq(t, a, b)

\* the text is one JSON value, alone or between the fences the parser
\* removes: an opening ```json or ``` (or both in that order, nothing
\* between them) and a closing ```, whitespace allowed around the value
FencedJson(t) ==
    \E open \in {<<>>, <<Fence>>, <<Fence, Word("json")>>,
                 <<Fence, Word("json"), Fence>>},
       close \in {<<>>, <<Fence>>},
       gapBefore \in {<<>>, <<Ws>>}, gapAfter \in {<<>>, <<Ws>>},
       v \in JsonValues :
        Trimmed(t) = open \o gapBefore \o <<Json(v)>> \o gapAfter \o close

\* the JSON value of such a text
ValueOf(t) == CHOOSE i \in 1..Len(t) : t[i].t = "json"

\* C11: parse_gemini_response returns, for every text, an analysis holding
\* alert_level, reason and recommended_action with alert_level in {green,
\* yellow, red}; a JSON object with the three fields is returned with its
\* alert_level replaced by 'green' when outside that set and every other
\* field kept; any other text gives the static fallback analysis.
C11_ParseValidates ==
    last.handler = "parse" =>
        LET a == last.analysis
            t == arg.text
            complete ==
                /\ FencedJson(t)
                /\ t[ValueOf(t)].v.type = "object"
                /\ {"alert_level", "reason", "recommended_action"}
                      \subseteq DOMAIN t[ValueOf(t)].v.obj
        IN  /\ {"alert_level", "reason", "recommended_action"} \subseteq DOMAIN a
            /\ a.alert_level \in {"green", "yellow", "red"}
            /\ IF complete
               THEN LET obj == t[ValueOf(t)].v.obj
                    IN  /\ DOMAIN a = DOMAIN obj
                        /\ \A f \in DOMAIN obj \ {"alert_level"} : a[f] = obj[f]
                        /\ a.alert_level =
                              IF obj.alert_level \in {"green", "yellow", "red"}
                              THEN obj.alert_level ELSE "green"
               ELSE a = get_fallback_analysis

\* a fenced object with alert_level 'orange': 'green' is returned with the
\* object's own reason
C11_Witness ==
    /\ last.handler = "parse"
    /\ Len(arg.text) >= 5
    /\ arg.text[1] = Fence
    /\ \E i \in 1..Len(arg.text) :
          /\ arg.text[i].t = "json"
          /\ arg.text[i].v.type = "object"
          /\ "alert_level" \in DOMAIN arg.text[i].v.obj
          /\ arg.text[i].v.obj.alert_level = "orange"
    /\ last.analysis.alert_level = "green"
    /\ last.analysis.reason = "High winds near the coast"

\* the ten city names of lines 66-75, as written there
TenCities ==
    {"Ahmedabad", "Surat", "Vadodara", "Rajkot", "Bhavnagar", "Jamnagar",
     "Porbandar", "Dwarka", "Veraval", "Okha"}

\* C12: /api/city/<city_name> answers 404 with error 'City not found'
\* exactly when city_name is not, letter for letter, one of the ten keys, and
\* then calls fetch_weather_data not at all; for a key it answers 200 with
\* a record whose city is city_name and whose icon_class is the city's icon.
C12_CityNotFound ==
    last.handler = "city" =>
        /\ last.status = 404 <=> last.name \notin TenCities
        /\ last.status = 404 =>
              /\ last.error = "City not found"
              /\ last.log = <<>>
              /\ "body" \notin DOMAIN last
        /\ last.name \in TenCities =>
              /\ last.status = 200
              /\ Len(last.log) = 1
              /\ last.body.city = last.name
              /\ last.body.icon_class = GUJARAT_CITIES[last.name].icon

\* 'surat' is not 'Surat': 404 and nothing fetched
C12_Witness ==
    /\ last.handler = "city"
    /\ last.name = "surat"
    /\ last.status = 404
    /\ last.log = <<>>

\* the request names a service and a recipient, and the service is one of two
WellFormed(request) ==
    /\ "type" \in DOMAIN request
    /\ "recipient" \in DOMAIN request
    /\ request.type \in {"email", "sms"}
    /\ request.recipient # <<>>

\* the request's message is a number, not a string
NumberMessage(request) ==
    "message_json" \in DOMAIN request /\ request.message_json = "number"

\* the answer is a refusal: success = false, an error, nothing called
Refused ==
    /\ last.body.success = FALSE
    /\ "error" \in DOMAIN last.body
    /\ last.calls = <<>>
    /\ last.sent = <<>>

\* one call, of the function the type names, for the recipient; the answer
\* carries timestamp, service_type and recipient
CalledOnce ==
    /\ Len(last.calls) = 1
    /\ last.calls[1].fn =
          (IF last.request.type = "email" THEN "send_email" ELSE "send_sms")
    /\ last.calls[1].to = last.request.recipient
    /\ Len(last.sent) <= 1
    /\ {"timestamp", "service_type", "recipient"} \subseteq DOMAIN last.body
    /\ last.body.service_type = <<last.request.type>>
    /\ last.body.recipient = last.request.recipient

\* C13 as stated: a request without type or recipient, or with another
\* type, is refused and nothing is called; any other request calls exactly
\* one of send_email / send_sms, once, matching the type, and is answered
\* with timestamp, service_type and recipient.
C13_SendsOnlyValid ==
    last.handler = "comm" =>
        IF WellFormed(last.request) THEN CalledOnce ELSE Refused

\* C13 as amended: as stated, except that an 'sms' request whose message
\* is a non-string that cannot be sliced is refused too, by the handler's
\* except clause: nothing is called and the answer has no timestamp,
\* service_type or recipient.
C13_SendsOnlyValidText ==
    last.handler = "comm" =>
        IF WellFormed(last.request)
           /\ ~(last.request.type = "sms" /\ NumberMessage(last.request))
        THEN CalledOnce
        ELSE /\ Refused
             /\ WellFormed(last.request) =>
                   DOMAIN last.body = {"success", "error"}

\* an 'sms' request with recipient and a number as message: refused
C13_Witness ==
    /\ last.handler = "comm"
    /\ WellFormed(last.request)
    /\ last.request.type = "sms"
    /\ NumberMessage(last.request)
    /\ last.calls = <<>>
    /\ last.body.success = FALSE
    /\ "timestamp" \notin DOMAIN last.body

\* the calls of send_sms made for the answer in flight
SmsCalls ==
    IF last.handler = "comm"
    THEN {last.calls[i] : i \in {j \in 1..Len(last.calls) : last.calls[j].fn = "send_sms"}}
    ELSE {}

\* the request's custom message, empty when it has none
CustomMessage ==
    IF "message" \in DOMAIN last.request THEN last.request.message ELSE <<>>

\* C14: the text /api/test-communications hands to send_sms has at most 160
\* characters: a custom message's first 160 characters, in order, or the
\* default text of 101 characters.
C14_SmsWithinLimit ==
    \A c \in SmsCalls :
        /\ Len(c.body) <= 160
        /\ IF CustomMessage # <<>>
           THEN /\ Len(c.body) = (IF Len(CustomMessage) < 160
                                  THEN Len(CustomMessage) ELSE 160)
                /\ \A i \in 1..Len(c.body) : c.body[i] = CustomMessage[i]
           ELSE Len(c.body) = 101

\* a custom message longer than 160 characters, handed on as its first 160
C14_Witness ==
    \E c \in SmsCalls :
        /\ Len(CustomMessage) > 160
        /\ Len(c.body) = 160
        /\ c.body[160] = CustomMessage[160]

---------------------------------------------------------------------------
(* get_wind_direction on its own: Init draws the degrees, the action       *)
(* converts them.                                                          *)

\* the largest direction tried, in whole degrees
MaxDegrees == 360

InitWind ==
    /\ apiKey = [set |-> FALSE, val |-> <<>>]
    /\ env \in {e \in Envs : ~e.gemini.set}
    /\ cities = GUJARAT_CITIES
    /\ rng = 0
    /\ last = NoLast
    /\ arg \in [degrees : 0..MaxDegrees]

ConvertWind ==
    /\ Idle
    /\ last' = [handler |-> "wind", index |-> WindIndex(arg.degrees),
                direction |-> get_wind_direction(arg.degrees)]
    /\ UNCHANGED <<apiKey, env, cities, rng, arg>>

NextWind == ConvertWind

SpecWind == InitWind /\ [][NextWind]_vars

\* the 16 points of the compass, clockwise from north
Compass ==
    <<"N", "NNE", "NE", "ENE", "E", "ESE", "SE", "SSE",
      "S", "SSW", "SW", "WSW", "W", "WNW", "NW", "NNW">>

\* C15: for whole degrees d, get_wind_direction returns the label of the
\* one sector k * 22.5 +- 11.25 degrees that holds d (in quarter degrees:
\* |4d - 90k| < 45), the table index stays within 0..15, and 0 and 360
\* both give 'N'.
C15_NearestCompassPoint ==
    last.handler = "wind" =>
        LET d == arg.degrees
        IN  /\ last.index \in 0..15
            /\ \E k \in 0..((4 * d) \div 90 + 1) :
                  /\ 4 * d - 90 * k < 45
                  /\ 90 * k - 4 * d < 45
                  /\ last.direction = Compass[(k % 16) + 1]
            /\ d \in {0, 360} => last.direction = "N"

\* 349 degrees lies in the sector centred on 360 and gives 'N' through the
\* wrap-around of the index
C15_Witness ==
    /\ last.handler = "wind"
    /\ arg.degrees = 349
    /\ last.index = 0
    /\ last.direction = "N"

====
